---- MODULE Spec2Model ----
(***************************************************************************)
(* A model of spotify-image-search (src/main.rs): the artist-list          *)
(* distance, the candidate ranking and selection of                        *)
(* get_image_url_for_track, and the control flow of main over one file or  *)
(* a directory walk.                                                       *)
(*                                                                         *)
(* Strings are sequences of one-character strings, so that the edit        *)
(* distance and exact string comparison are computed, not assumed.         *)
(***************************************************************************)
EXTENDS Integers, Sequences, FiniteSets

VARIABLES
    args,       \* Args: [isDir, recursive, force]
    tree,       \* the files under args.file, as the walk meets them
    walk,       \* the entries of the current run, in walk order
    fs,         \* per directory, the content of its output file
    fsStart,    \* fs as it was when the current run started
    pc,         \* position of main: "off", "start", "main", "done"
    idx,        \* index of the next entry of walk
    result,     \* "running", "Ok", "Err" (main returned Err), "Panic"
    outcome,    \* per entry of walk, how its loop iteration ended
    abortedAt,  \* index of the entry at which main returned or panicked, 0 if none
    again,      \* FALSE in the first run of the tool over the tree, TRUE in a later one
    selCall,    \* one call of get_image_url_for_track: inputs and result
    distCall    \* one call of calculate_average_artist_names_distance

vars == <<args, tree, walk, fs, fsStart, pc, idx, result, outcome, abortedAt,
          again, selCall, distCall>>

mainVars == <<args, tree, walk, fs, fsStart, pc, idx, result, outcome, abortedAt, again>>

----------------------------------------------------------------------------
(* Bounds *)

MaxTracks == 3      \* longest list of search results
MaxArtists == 2     \* longest artist list
MaxFiles == 3       \* most files in the walked tree

----------------------------------------------------------------------------
(* Strings *)

TitleA == <<"a">>
TitleAB == <<"a", "b">>
ArtistX == <<"x">>
ArtistY == <<"y">>
ArtistXYZ == <<"x", "y", "z">>
AlbumUpper == <<"A">>
AlbumLower == <<"a">>
AlbumUpperSpace == <<"A", " ">>

ArtistNames == {ArtistX, ArtistY, ArtistXYZ}
AlbumNames == {AlbumUpper, AlbumLower, AlbumUpperSpace}
TrackNames == {TitleA, TitleAB}

Min(S) == CHOOSE x \in S : \A y \in S : x <= y

\* edit_distance::edit_distance: Levenshtein distance, unit costs.
RECURSIVE EditDistance(_, _)
EditDistance(s, t) ==
    IF Len(s) = 0 THEN Len(t)
    ELSE IF Len(t) = 0 THEN Len(s)
    ELSE Min({ EditDistance(Tail(s), t) + 1,
               EditDistance(s, Tail(t)) + 1,
               EditDistance(Tail(s), Tail(t)) + (IF Head(s) = Head(t) THEN 0 ELSE 1) })

----------------------------------------------------------------------------
(* calculate_average_artist_names_distance *)

Value(n) == [kind |-> "Ok", val |-> n]
PanicValue == [kind |-> "Panic", val |-> 0]

\* the inner loop: the least distance of one name to the names of larger
MinDistance(name, larger) ==
    Min({ EditDistance(name, larger[j]) : j \in DOMAIN larger })

\* the outer loop: total_distance over the names of smaller
RECURSIVE TotalDistance(_, _)
TotalDistance(smaller, larger) ==
    IF Len(smaller) = 0 THEN 0
    ELSE MinDistance(Head(smaller), larger) + TotalDistance(Tail(smaller), larger)

calculate_average_artist_names_distance(a, b) ==
    LET num_artists == Len(a)
        num_found_artists == Len(b)
        larger == IF num_artists > num_found_artists THEN a ELSE b
        smaller == IF num_artists > num_found_artists THEN b ELSE a
    IN  IF Len(smaller) > 0 /\ Len(larger) = 0 THEN PanicValue   \* expect() on None
        ELSE IF num_found_artists = 0 THEN PanicValue            \* division by zero
        ELSE Value(TotalDistance(smaller, larger) \div num_found_artists)

----------------------------------------------------------------------------
(* get_image_url_for_track *)

Url(i) == <<"u", i>>

\* the key closure of sort_by_key
SortKey(local, found_track) ==
    LET track_name_distance == EditDistance(local.title, found_track.name)
        artist_name_distance ==
            calculate_average_artist_names_distance(local.artists, found_track.artists)
        album_name_distance == EditDistance(local.album, found_track.album)
    IN  IF artist_name_distance.kind = "Panic" THEN PanicValue
        ELSE Value(track_name_distance + artist_name_distance.val + album_name_distance)

\* an insertion that puts i before the elements of equal key
InsertByKeyUnstable(order, i, key) ==
    LET pos == Cardinality({ p \in DOMAIN order : key[order[p]] < key[i] })
    IN  SubSeq(order, 1, pos) \o <<i>> \o SubSeq(order, pos + 1, Len(order))

\* one insertion of a stable sort: i goes after every element whose key is
\* not greater than its own
InsertByKey(order, i, key) ==
    LET pos == Cardinality({ p \in DOMAIN order : key[order[p]] <= key[i] })
    IN  SubSeq(order, 1, pos) \o <<i>> \o SubSeq(order, pos + 1, Len(order))

RECURSIVE SortedPrefix(_, _)
SortedPrefix(n, key) ==
    IF n = 0 THEN <<>> ELSE InsertByKey(SortedPrefix(n - 1, key), n, key)

\* tracks.sort_by_key(..): the positions of tracks in sorted order.  A slice
\* of fewer than two elements is returned as it is, its key never computed.
sort_by_key(local, tracks) ==
    IF Len(tracks) < 2 THEN [kind |-> "Ok", order |-> [p \in DOMAIN tracks |-> p]]
    ELSE IF \E p \in DOMAIN tracks : SortKey(local, tracks[p]).kind = "Panic"
         THEN [kind |-> "Panic", order |-> <<>>]
    ELSE [kind |-> "Ok",
          order |-> SortedPrefix(Len(tracks),
                                 [p \in DOMAIN tracks |-> SortKey(local, tracks[p]).val])]

\* a selection that takes the top of the sorted list, whatever the albums
SelectTopScore(album_name, tracks, order) ==
    IF Len(tracks) = 0 THEN 0 ELSE order[1]

\* let track = if tracks.len() <= 1 { &tracks[0] } else { ... }: the position
\* (in the search result) of the chosen track, 0 for an index out of bounds
SelectTrack(album_name, tracks, order) ==
    IF Len(tracks) <= 1
    THEN (IF Len(tracks) = 0 THEN 0 ELSE order[1])
    ELSE LET matching == { p \in DOMAIN order : tracks[order[p]].album = album_name }
         IN  IF matching # {} THEN order[Min(matching)] ELSE order[1]

Found(url, index) == [kind |-> "Ok", url |-> url, index |-> index]
Failed == [kind |-> "Err", url |-> <<>>, index |-> 0]
Panicked == [kind |-> "Panic", url |-> <<>>, index |-> 0]

get_image_url_for_track(local, res) ==
    IF res.kind = "TransportError" THEN Failed          \* search(..).await?
    ELSE IF res.kind = "NotArray" THEN Failed           \* "Results should be an array"
    ELSE LET tracks == res.items
             sorted == sort_by_key(local, tracks)
         IN  IF sorted.kind = "Panic" THEN Panicked
             ELSE LET index == SelectTrack(local.album, tracks, sorted.order)
                  IN  IF index = 0 THEN Panicked                        \* &tracks[0]
                      ELSE IF Len(tracks[index].images) = 0 THEN Panicked \* images[0]
                      ELSE Found(tracks[index].images[1], index)

----------------------------------------------------------------------------
(* Inputs *)

RECURSIVE SeqsUpTo(_, _)
SeqsUpTo(S, n) ==
    IF n = 0 THEN {<<>>}
    ELSE LET shorter == SeqsUpTo(S, n - 1)
         IN  shorter \cup { Append(s, x) : s \in shorter, x \in S }

ArtistLists == SeqsUpTo(ArtistNames, MaxArtists)

\* TrackDescriptor of a local file: split(", ") yields at least one name
Locals == [title : {TitleA},
           artists : {<<ArtistX>>, <<ArtistX, ArtistY>>},
           album : {AlbumUpper}]

\* the shapes of one search result; its image url is set from its position
WellFormedShapes ==
    [name : TrackNames, artists : {<<ArtistX>>, <<ArtistY>>}, album : AlbumNames,
     hasImage : {TRUE}]
MalformedShapes ==
    { [name |-> TitleA, artists |-> <<>>, album |-> AlbumUpper, hasImage |-> TRUE],
      [name |-> TitleA, artists |-> <<ArtistX>>, album |-> AlbumUpper, hasImage |-> FALSE],
      [name |-> TitleAB, artists |-> <<>>, album |-> AlbumLower, hasImage |-> FALSE] }
Shapes == WellFormedShapes \cup MalformedShapes

Track(shape, p) ==
    [name |-> shape.name, artists |-> shape.artists, album |-> shape.album,
     images |-> IF shape.hasImage THEN <<Url(p)>> ELSE <<>>]

TrackLists ==
    { [p \in DOMAIN shapes |-> Track(shapes[p], p)] : shapes \in SeqsUpTo(Shapes, MaxTracks) }

Items(tracks) == [kind |-> "Items", items |-> tracks]
TransportError == [kind |-> "TransportError", items |-> <<>>]
NotArray == [kind |-> "NotArray", items |-> <<>>]

SearchResults == {TransportError, NotArray} \cup { Items(tracks) : tracks \in TrackLists }

NoSelCall == [phase |-> "off", local |-> <<>>, res |-> <<>>, out |-> <<>>]
NoDistCall == [phase |-> "off", a |-> <<>>, b |-> <<>>, out |-> <<>>]

MainOff ==
    /\ args = [isDir |-> FALSE, recursive |-> FALSE, force |-> FALSE]
    /\ tree = <<>>
    /\ walk = <<>>
    /\ fs = <<>>
    /\ fsStart = <<>>
    /\ pc = "off"
    /\ idx = 0
    /\ result = "running"
    /\ outcome = <<>>
    /\ abortedAt = 0
    /\ again = FALSE

----------------------------------------------------------------------------
(* The artist-list distance on its own *)

InitDistance ==
    /\ MainOff
    /\ selCall = NoSelCall
    /\ \E a \in ArtistLists, b \in ArtistLists :
          distCall = [phase |-> "called", a |-> a, b |-> b, out |-> <<>>]

ComputeDistance ==
    /\ distCall.phase = "called"
    /\ distCall' = [distCall EXCEPT
                      !.phase = "returned",
                      !.out = calculate_average_artist_names_distance(distCall.a, distCall.b)]
    /\ UNCHANGED <<mainVars, selCall>>

NextDistance == ComputeDistance

SpecDistance == InitDistance /\ [][NextDistance]_vars

----------------------------------------------------------------------------
(* The selection on its own *)

InitSelect ==
    /\ MainOff
    /\ distCall = NoDistCall
    /\ \E local \in Locals, res \in SearchResults :
          selCall = [phase |-> "called", local |-> local, res |-> res, out |-> <<>>]

ComputeSelect ==
    /\ selCall.phase = "called"
    /\ selCall' = [selCall EXCEPT
                     !.phase = "returned",
                     !.out = get_image_url_for_track(selCall.local, selCall.res)]
    /\ UNCHANGED <<mainVars, distCall>>

NextSelect == ComputeSelect

SpecSelect == InitSelect /\ [][NextSelect]_vars

----------------------------------------------------------------------------
(* main *)

Absent == <<"absent">>
Old == <<"old">>
Truncated == <<"truncated">>

\* "P" is the parent of the walked directory "R", "S" a directory under "R"
Dirs == {"P", "R", "S"}

RootEntry == [kind |-> "dir", parent |-> "P", tag |-> "none"]
SubdirEntry == [kind |-> "dir", parent |-> "R", tag |-> "none"]
WalkError == [kind |-> "error", parent |-> "R", tag |-> "none"]
Files == [kind : {"file"}, parent : {"R", "S"}, tag : {"unreadable", "ok"}]

\* an output file that exists under the tree is itself a file of the walk;
\* it is no audio file
OutputEntry(d) == [kind |-> "file", parent |-> d, tag |-> "unreadable"]
OutputEntries(f) ==
    (IF f["R"] # Absent THEN <<OutputEntry("R")>> ELSE <<>>)
    \o (IF f["S"] # Absent THEN <<OutputEntry("S")>> ELSE <<>>)

\* the tags every readable file of the model carries
FileLocal == [title |-> TitleA, artists |-> <<ArtistX>>, album |-> AlbumUpper]

GoodTrack(p) == Track([name |-> TitleA, artists |-> <<ArtistX>>, album |-> AlbumUpper,
                       hasImage |-> TRUE], p)
OtherTrack(p) == Track([name |-> TitleA, artists |-> <<ArtistX>>, album |-> AlbumLower,
                        hasImage |-> TRUE], p)
NoArtistTrack(p) == Track([name |-> TitleA, artists |-> <<>>, album |-> AlbumUpper,
                           hasImage |-> TRUE], p)
NoImageTrack(p) == Track([name |-> TitleA, artists |-> <<ArtistX>>, album |-> AlbumUpper,
                          hasImage |-> FALSE], p)

WalkResults ==
    { TransportError, NotArray, Items(<<>>), Items(<<GoodTrack(1)>>),
      Items(<<OtherTrack(1), GoodTrack(2)>>), Items(<<NoArtistTrack(1)>>),
      Items(<<GoodTrack(1), NoArtistTrack(2)>>), Items(<<NoImageTrack(1)>>) }

\* what the tag library, the network and the disk answer during one
\* iteration: a readable file without title, artist or album; every search
\* result with the download and the write succeeding; and each later failure
\* after a search result that yields an image url
Answer(fields, res, download, create, write) ==
    [fields |-> fields, res |-> res, download |-> download, create |-> create,
     write |-> write]
Answers ==
    { Answer(TRUE, res, TRUE, TRUE, TRUE) : res \in WalkResults }
    \cup { Answer(FALSE, Items(<<GoodTrack(1)>>), TRUE, TRUE, TRUE),
           Answer(TRUE, Items(<<GoodTrack(1)>>), FALSE, TRUE, TRUE),
           Answer(TRUE, Items(<<GoodTrack(1)>>), TRUE, FALSE, TRUE),
           Answer(TRUE, Items(<<GoodTrack(1)>>), TRUE, TRUE, FALSE) }

InvalidFiletype == [kind |-> "Err", url |-> <<"InvalidFiletype">>, index |-> 0]

get_image_url_from_filename(entry, answer) ==
    IF entry.tag = "unreadable" THEN InvalidFiletype
    ELSE IF ~answer.fields THEN Failed          \* title, artist or album is None
    ELSE get_image_url_for_track(FileLocal, answer.res)

\* an iteration that does not look for the output file
IterationNoExistsCheck(entry, force, exists, answer) ==
    IF entry.kind = "error" THEN "walk_error"
    ELSE IF entry.kind = "dir" THEN "skip_dir"
    ELSE LET found == get_image_url_from_filename(entry, answer)
         IN  IF found = InvalidFiletype THEN "tag_unreadable"
             ELSE IF found.kind = "Err" THEN "no_image_url"
             ELSE IF found.kind = "Panic" THEN "panic"
             ELSE IF ~answer.download THEN "download_failed"
             ELSE IF ~answer.create THEN "create_failed"
             ELSE IF ~answer.write THEN "write_failed"
             ELSE "written"

\* What one iteration of the loop over WalkDir does with its entry: where it ends.
Iteration(entry, force, exists, answer) ==
    IF entry.kind = "error" THEN "walk_error"               \* entry.unwrap()
    ELSE IF ~force /\ exists THEN "skip_exists"
    ELSE IF entry.kind = "dir" THEN "skip_dir"
    ELSE LET found == get_image_url_from_filename(entry, answer)
         IN  IF found = InvalidFiletype THEN "tag_unreadable"
             ELSE IF found.kind = "Err" THEN "no_image_url"
             ELSE IF found.kind = "Panic" THEN "panic"
             ELSE IF ~answer.download THEN "download_failed"
             ELSE IF ~answer.create THEN "create_failed"
             ELSE IF ~answer.write THEN "write_failed"
             ELSE "written"

\* a loop that returns the error of get_image_url_from_filename
WalkControlReturnsErr(end) ==
    IF end \in {"skip_exists", "skip_dir", "written"} THEN "continue"
    ELSE IF end \in {"tag_unreadable", "no_image_url", "download_failed",
                     "create_failed", "write_failed"} THEN "Err"
    ELSE "Panic"

\* a loop that goes on after a failure to create or write the output file
WalkControlSkipsWriteFailure(end) ==
    IF end \in {"skip_exists", "skip_dir", "tag_unreadable", "no_image_url", "written",
                "create_failed", "write_failed"}
    THEN "continue"
    ELSE IF end = "download_failed" THEN "Err"
    ELSE "Panic"

\* How the loop goes on after an iteration: the Err(_) arm and the fall
\* through continue, the ? operators return the error, unwrap/expect/index panic.
WalkControl(end) ==
    IF end \in {"skip_exists", "skip_dir", "tag_unreadable", "no_image_url", "written"}
    THEN "continue"
    ELSE IF end \in {"download_failed", "create_failed", "write_failed"} THEN "Err"
    ELSE "Panic"

\* a single-file branch that opens the output with File::create whatever force is
SingleAlwaysCreate(entry, force, exists, answer) ==
    LET found == get_image_url_from_filename(entry, answer)
    IN  IF found = InvalidFiletype THEN "tag_unreadable"
        ELSE IF found.kind = "Err" THEN "no_image_url"
        ELSE IF found.kind = "Panic" THEN "panic"
        ELSE IF ~answer.download THEN "download_failed"
        ELSE IF ~answer.create THEN "create_failed"
        ELSE IF ~answer.write THEN "write_failed"
        ELSE "written"

\* The else branch of main, for one file.
Single(entry, force, exists, answer) ==
    LET found == get_image_url_from_filename(entry, answer)
    IN  IF found = InvalidFiletype THEN "tag_unreadable"
        ELSE IF found.kind = "Err" THEN "no_image_url"
        ELSE IF found.kind = "Panic" THEN "panic"
        ELSE IF ~answer.download THEN "download_failed"
        ELSE IF force /\ ~answer.create THEN "create_failed"              \* File::create
        ELSE IF ~force /\ (exists \/ ~answer.create) THEN "create_failed" \* File::create_new
        ELSE IF ~answer.write THEN "write_failed"
        ELSE "written"

SingleControl(end) ==
    IF end = "written" THEN "Ok"
    ELSE IF end = "panic" THEN "Panic"
    ELSE "Err"

\* the output file of directory d after an iteration that ended in end
Written(f, d, end, url) ==
    IF end = "written" THEN [f EXCEPT ![d] = url]
    ELSE IF end = "write_failed" THEN [f EXCEPT ![d] = Truncated]
    ELSE f

Init ==
    /\ selCall = NoSelCall
    /\ distCall = NoDistCall
    /\ args \in [isDir : BOOLEAN, recursive : BOOLEAN, force : BOOLEAN]
    /\ tree \in IF args.isDir THEN SeqsUpTo(Files \cup {WalkError}, MaxFiles)
                ELSE { <<f>> : f \in { g \in Files : g.parent = "R" } }
    /\ walk = <<>>
    /\ fs \in { f \in [Dirs -> {Absent, Old}] : f["P"] = Absent }
    /\ fsStart = fs
    /\ pc = "start"
    /\ idx = 0
    /\ result = "running"
    /\ outcome = <<>>
    /\ abortedAt = 0
    /\ again = FALSE

\* main up to the test of args.file: home directory, the two credential
\* files, the access token
Startup ==
    /\ pc = "start"
    /\ \E ok \in BOOLEAN :
          IF ok
          THEN /\ pc' = "main"
               /\ walk' = IF ~args.isDir THEN tree
                          ELSE IF ~args.recursive THEN <<>>
                          ELSE <<RootEntry, SubdirEntry>> \o tree \o OutputEntries(fs)
               /\ outcome' = [i \in DOMAIN walk' |-> "pending"]
               /\ idx' = 1
               /\ result' = "running"
          ELSE /\ pc' = "done"
               /\ result' = "Err"
               /\ UNCHANGED <<walk, outcome, idx>>
    /\ UNCHANGED <<args, tree, fs, fsStart, abortedAt, again, selCall, distCall>>

\* a directory without --recursive
DirectoryNotRecursive ==
    /\ pc = "main" /\ args.isDir /\ ~args.recursive
    /\ pc' = "done"
    /\ result' = "Err"
    /\ UNCHANGED <<args, tree, walk, fs, fsStart, idx, outcome, abortedAt, again,
                   selCall, distCall>>

\* one iteration of: for entry in WalkDir::new(&args.file)
WalkEntry ==
    /\ pc = "main" /\ args.isDir /\ args.recursive
    /\ idx <= Len(walk)
    /\ \E answer \in Answers :
          LET entry == walk[idx]
              end == Iteration(entry, args.force, fs[entry.parent] # Absent, answer)
              control == WalkControl(end)
              found == get_image_url_from_filename(entry, answer)
          IN  /\ outcome' = [outcome EXCEPT ![idx] = end]
              /\ fs' = Written(fs, entry.parent, end, found.url)
              /\ IF control = "continue"
                 THEN /\ idx' = idx + 1
                      /\ UNCHANGED <<pc, result, abortedAt>>
                 ELSE /\ pc' = "done"
                      /\ result' = control
                      /\ abortedAt' = idx
                      /\ UNCHANGED idx
    /\ UNCHANGED <<args, tree, walk, fsStart, again, selCall, distCall>>

\* the walk is exhausted: Ok(())
WalkEnd ==
    /\ pc = "main" /\ args.isDir /\ args.recursive
    /\ idx > Len(walk)
    /\ pc' = "done"
    /\ result' = "Ok"
    /\ UNCHANGED <<args, tree, walk, fs, fsStart, idx, outcome, abortedAt, again,
                   selCall, distCall>>

\* args.file is no directory
SingleFile ==
    /\ pc = "main" /\ ~args.isDir
    /\ \E answer \in Answers :
          LET entry == walk[idx]
              end == Single(entry, args.force, fs[entry.parent] # Absent, answer)
              found == get_image_url_from_filename(entry, answer)
          IN  /\ outcome' = [outcome EXCEPT ![idx] = end]
              /\ fs' = Written(fs, entry.parent, end, found.url)
              /\ result' = SingleControl(end)
              /\ abortedAt' = IF end = "written" THEN 0 ELSE idx
    /\ pc' = "done"
    /\ UNCHANGED <<args, tree, walk, fsStart, idx, again, selCall, distCall>>

\* the tool is run again with the same arguments
Rerun ==
    /\ pc = "done"
    /\ again' = TRUE
    /\ pc' = "start"
    /\ fsStart' = fs
    /\ walk' = <<>>
    /\ outcome' = <<>>
    /\ idx' = 0
    /\ result' = "running"
    /\ abortedAt' = 0
    /\ UNCHANGED <<args, tree, fs, selCall, distCall>>

Next ==
    \/ Startup
    \/ DirectoryNotRecursive
    \/ WalkEntry
    \/ WalkEnd
    \/ SingleFile
    \/ Rerun

Spec == Init /\ [][Next]_vars

----------------------------------------------------------------------------
(* Properties *)

Recursive == args.isDir /\ args.recursive
Returned == selCall.phase = "returned"
Tracks == selCall.res.items
WellFormed(t) == Len(t.artists) > 0 /\ Len(t.images) > 0
AllWellFormed == \A p \in DOMAIN Tracks : WellFormed(Tracks[p])
Score(p) == SortKey(selCall.local, Tracks[p]).val
Matching == { p \in DOMAIN Tracks : Tracks[p].album = selCall.local.album }
\* the order "ascending score, equal scores in search-result order"
Before(p, q) == Score(p) < Score(q) \/ (Score(p) = Score(q) /\ p < q)
StageFailures == {"tag_unreadable", "no_image_url", "panic", "download_failed",
                  "create_failed", "write_failed"}

\* C1: in recursive mode a failure at any stage of an entry's pipeline (tag
\* read, search, selection, download, write) does not end the run: the walk
\* goes on to the next entry.
C1_StageFailureIsolated ==
    Recursive =>
        \A i \in DOMAIN outcome :
            outcome[i] \in StageFailures => (abortedAt # i /\ idx > i)

\* C2: when no well-formed candidate is left of the search result,
\* get_image_url_for_track returns a failure value (NoCandidates); it does
\* not panic and does not return a url.
C2_NoCandidatesIsFailure ==
    (Returned /\ selCall.res.kind = "Items"
       /\ \A p \in DOMAIN Tracks : ~WellFormed(Tracks[p]))
    => selCall.out.kind = "Err"

\* C3: from a non-empty list of well-formed candidates the call returns the
\* url of the first candidate, in the order Before, among those whose album
\* equals the local album exactly, and of the first of all candidates when
\* no album is equal.
C3_Selection ==
    (Returned /\ selCall.res.kind = "Items" /\ Len(Tracks) > 0 /\ AllWellFormed)
    => /\ selCall.out.kind = "Ok"
       /\ LET s == selCall.out.index
              among == IF Matching # {} THEN Matching ELSE DOMAIN Tracks
          IN  /\ s \in among
              /\ \A q \in among \ {s} : Before(s, q)
              /\ selCall.out.url = Tracks[s].images[1]

\* C3 witness: an exact album match was selected over a candidate of
\* strictly lower score.
C3_Witness ==
    /\ Returned /\ selCall.res.kind = "Items" /\ Len(Tracks) > 1 /\ AllWellFormed
    /\ selCall.out.kind = "Ok"
    /\ selCall.out.index \in Matching
    /\ \E q \in DOMAIN Tracks : Score(q) < Score(selCall.out.index)

\* C4: a candidate without artists or without artwork is dropped before
\* scoring: it never makes the call panic and is never the one selected.
C4_MalformedDiscarded ==
    (Returned /\ selCall.res.kind = "Items")
    => /\ selCall.out.kind # "Panic"
       /\ selCall.out.kind = "Ok" => WellFormed(Tracks[selCall.out.index])

\* C5: single-file mode, output file present, no force: the run fails and
\* the output file is as it was; when an image url was found and downloaded,
\* the run ends with the error of creating the file.
C5_SingleExistingFails ==
    (pc = "done" /\ ~args.isDir /\ ~args.force /\ fsStart["R"] # Absent)
    => /\ result \in {"Err", "Panic"}
       /\ fs = fsStart
       /\ \A i \in DOMAIN outcome :
             outcome[i] \in {"tag_unreadable", "no_image_url", "panic",
                             "download_failed", "create_failed"}

C5_Witness ==
    /\ pc = "done" /\ ~args.isDir /\ ~args.force /\ fsStart["R"] = Old
    /\ outcome = <<"create_failed">>
    /\ result = "Err"

\* C6: in a second run of the recursive mode without force, every entry whose
\* output file was there when the run started is skipped before the pipeline
\* starts, and that output file is not written.
C6_SecondRunSkips ==
    (Recursive /\ ~args.force /\ again)
    => \A i \in DOMAIN outcome :
          (walk[i].kind # "error" /\ fsStart[walk[i].parent] # Absent)
          => /\ outcome[i] \in {"pending", "skip_exists"}
             /\ fs[walk[i].parent] = fsStart[walk[i].parent]
             /\ abortedAt # i

\* C6 witness: the second run ended well, having skipped a readable file
\* whose output file the first run wrote.
C6_Witness ==
    /\ Recursive /\ ~args.force /\ again /\ pc = "done" /\ result = "Ok"
    /\ \E i \in DOMAIN outcome :
          /\ walk[i].kind = "file" /\ walk[i].tag = "ok"
          /\ outcome[i] = "skip_exists"
          /\ fsStart[walk[i].parent] \notin {Absent, Old, Truncated}

\* C7: in a recursive walk a file whose tags cannot be read is passed over:
\* the run does not end at it, and the walk goes on to the entries after it.
C7_UnreadableSkipped ==
    Recursive =>
        \A i \in DOMAIN outcome :
            (walk[i].kind = "file" /\ walk[i].tag = "unreadable" /\ outcome[i] # "pending")
            => /\ outcome[i] \in {"skip_exists", "tag_unreadable"}
               /\ abortedAt # i
               /\ idx > i

\* C7 witness: a run that ended well, with a file written before and a file
\* written after an unreadable one.
C7_Witness ==
    /\ Recursive /\ pc = "done" /\ result = "Ok"
    /\ \E i, j, k \in DOMAIN outcome :
          /\ i < j /\ j < k
          /\ outcome[i] = "written"
          /\ outcome[j] = "tag_unreadable"
          /\ outcome[k] = "written"

\* C8: for non-empty artist lists the distance is the sum, over the names of
\* the shorter list, of the least edit distance to a name of the longer list,
\* divided (integer division) by the length of the longer list.
C8_DividedByLonger ==
    (distCall.phase = "returned" /\ Len(distCall.a) > 0 /\ Len(distCall.b) > 0)
    => LET shorter == IF Len(distCall.a) <= Len(distCall.b) THEN distCall.a ELSE distCall.b
           longer == IF Len(distCall.a) <= Len(distCall.b) THEN distCall.b ELSE distCall.a
       IN  distCall.out = Value(TotalDistance(shorter, longer) \div Len(longer))

\* C9: a failure to create or to write the output file ends the run with an
\* error at that entry, in single-file mode and in recursive mode: no later
\* entry is processed.
C9_WriteFailureFatal ==
    \A i \in DOMAIN outcome :
        outcome[i] \in {"create_failed", "write_failed"}
        => /\ pc = "done"
           /\ result = "Err"
           /\ abortedAt = i
           /\ \A j \in DOMAIN outcome : j > i => outcome[j] = "pending"

\* C9 witness: a recursive walk that ended at a failed write with entries
\* left.
C9_Witness ==
    /\ Recursive
    /\ \E i \in DOMAIN outcome :
          /\ outcome[i] = "write_failed"
          /\ i < Len(walk)
          /\ walk[i + 1].kind = "file"

\* C10: with two or more candidates, one at least of the local album, the
\* selected candidate has the least score of those of the local album, and
\* is the earliest in the search result among those of that score.
C10_BestExactMatch ==
    (Returned /\ selCall.res.kind = "Items" /\ Len(Tracks) >= 2 /\ Matching # {}
       /\ selCall.out.kind = "Ok")
    => LET s == selCall.out.index
       IN  /\ s \in Matching
           /\ Score(s) = Min({ Score(q) : q \in Matching })
           /\ s = Min({ q \in Matching : Score(q) = Score(s) })

\* C10 witness: two candidates of the local album and of different scores,
\* the better one later in the search result, and selected.
C10_Witness ==
    /\ Returned /\ selCall.res.kind = "Items" /\ selCall.out.kind = "Ok"
    /\ \E p, q \in Matching :
          /\ p < q
          /\ Score(q) < Score(p)
          /\ selCall.out.index = q

====
